---- MODULE Spec2Model ----
(***************************************************************************)
(* Model of mineSweeper.py: a Minesweeper solver that deduces mines and    *)
(* safe cells from constraint regions (find_regions), splits overlapping   *)
(* regions recursively (split_regions) and falls back to a random guess.   *)
(***************************************************************************)
EXTENDS Integers, FiniteSets, Sequences, TLC

\* ------------------------------------------------------------------------
\* Bounds of the model
\* ------------------------------------------------------------------------
\* board dimensions (EXPERT_FIELD['width'] / ['height'] in the program)
width == 3

height == 3

\* size of the cell universe and largest bound value of the regions the
\* pure split specification (SpecSplit) draws
MaxFields == 4

\* ------------------------------------------------------------------------
\* Program constants
\* ------------------------------------------------------------------------
MAX_RECURSION_DEPTH == 4

\* FieldType.Mine, FieldType.Unknown; Numbered0..Numbered8 are 0..8
Mine == 9

Unknown == 10

\* the oracle's distinguished "was a mine" result
WasMine == -1

VARIABLES
    playarea,           \* playarea[x][y].type, as a function of the cell <<x, y>>
    mines_left,         \* global mines_left
    minefield,          \* the oracle's mine layout (set of cells), fixed over a solve
    queries,            \* how often the oracle was asked for each cell
    pc,                 \* position of the program
    scan,               \* find_regions: index of the cell the double loop is at
    regions,            \* the region list (find_regions' result, split_regions' working list)
    playarea_modified,  \* the playarea_modified local of the running function
    stack,              \* split_regions' call stack, innermost call last
    cause,              \* which code issued the last oracle query
    checked,            \* the check_region calls of the last step: <<region, result>>
    passes,             \* iterations of the solver loop started so far
    unknown_at_start    \* number of Unknown cells when the current iteration started

vars == <<playarea, mines_left, minefield, queries, pc, scan, regions,
          playarea_modified, stack, cause, checked, passes, unknown_at_start>>

\* ------------------------------------------------------------------------
\* Board
\* ------------------------------------------------------------------------
Cells == (0 .. width - 1) \X (0 .. height - 1)

NumCells == width * height

\* the cell the scan "for y: for x:" visits as number i
CellAt(i) == <<i % width, i \div width>>

Max2(a, b) == IF a >= b THEN a ELSE b

Min2(a, b) == IF a <= b THEN a ELSE b

Adjacent(c) ==
    { d \in Cells : /\ d # c
                    /\ d[1] \in Max2(c[1] - 1, 0) .. (Min2(c[1] + 2, width) - 1)
                    /\ d[2] \in Max2(c[2] - 1, 0) .. (Min2(c[2] + 2, height) - 1) }

find_adjacent_type(c, type, pa) == { d \in Adjacent(c) : pa[d] = type }

\* find_remaining with the test "type != Mine" for "type == Unknown"
find_remaining_NotMine(pa) == { c \in Cells : pa[c] # Mine }

find_remaining(pa) == { c \in Cells : pa[c] = Unknown }

\* the oracle: adjacent-mine count of a cell, or the "was a mine" result
sweep_cell(c, layout) ==
    IF c \in layout THEN WasMine ELSE Cardinality(Adjacent(c) \cap layout)

Region(mn, mx, fs) == [mines_min |-> mn, mines_max |-> mx, fields |-> fs]

\* ------------------------------------------------------------------------
\* sweep_field over a set of cells: the outcomes of "for field in fields:
\* sweep_field(field)".  A sweep of a mine ends the program; the cells swept
\* before it depend on the iteration order of the set.
\* ------------------------------------------------------------------------
Swept(pa, S, layout) ==
    [c \in Cells |-> IF c \in S THEN sweep_cell(c, layout) ELSE pa[c]]

Asked(q, S) == [c \in Cells |-> IF c \in S THEN q[c] + 1 ELSE q[c]]

SweepAll(fs, pa, ml, q, layout) ==
    IF fs \cap layout = {}
    THEN { [playarea |-> Swept(pa, fs, layout), mines_left |-> ml,
            queries |-> Asked(q, fs), modified |-> TRUE, exploded |-> FALSE] }
    ELSE { [playarea |-> Swept(pa, S, layout), mines_left |-> ml,
            queries |-> Asked(q, S \cup {h}), modified |-> FALSE, exploded |-> TRUE]
           : S \in SUBSET (fs \ layout), h \in fs \cap layout }

\* the mark branch with "mines_left = mines_left - 1" outside the loop
MarkAll_DecrementOnce(fs, pa, ml, q) ==
    { [playarea |-> [c \in Cells |-> IF c \in fs THEN Mine ELSE pa[c]],
       mines_left |-> ml - 1,
       queries |-> q, modified |-> TRUE, exploded |-> FALSE] }

MarkAll(fs, pa, ml, q) ==
    { [playarea |-> [c \in Cells |-> IF c \in fs THEN Mine ELSE pa[c]],
       mines_left |-> ml - Cardinality(fs),
       queries |-> q, modified |-> TRUE, exploded |-> FALSE] }

NoChange(pa, ml, q) ==
    { [playarea |-> pa, mines_left |-> ml, queries |-> q,
       modified |-> FALSE, exploded |-> FALSE] }

\* check_region without the test "mines_min != mines_max"
check_region_NoCollapseTest(region, pa, ml, q, layout) ==
    IF Cardinality(region.fields) = 0
    THEN NoChange(pa, ml, q)
    ELSE IF region.mines_min = 0
    THEN SweepAll(region.fields, pa, ml, q, layout)
    ELSE IF region.mines_min = Cardinality(region.fields)
    THEN MarkAll(region.fields, pa, ml, q)
    ELSE NoChange(pa, ml, q)

\* check_region whose last line is "return True"
check_region_LastTrue(region, pa, ml, q, layout) ==
    IF Cardinality(region.fields) = 0 \/ region.mines_min # region.mines_max
    THEN NoChange(pa, ml, q)
    ELSE IF region.mines_min = 0
    THEN SweepAll(region.fields, pa, ml, q, layout)
    ELSE IF region.mines_min = Cardinality(region.fields)
    THEN MarkAll(region.fields, pa, ml, q)
    ELSE { [playarea |-> pa, mines_left |-> ml, queries |-> q,
            modified |-> TRUE, exploded |-> FALSE] }

check_region(region, pa, ml, q, layout) ==
    IF Cardinality(region.fields) = 0 \/ region.mines_min # region.mines_max
    THEN NoChange(pa, ml, q)
    ELSE IF region.mines_min = 0
    THEN SweepAll(region.fields, pa, ml, q, layout)
    ELSE IF region.mines_min = Cardinality(region.fields)
    THEN MarkAll(region.fields, pa, ml, q)
    ELSE NoChange(pa, ml, q)

\* ------------------------------------------------------------------------
\* Initial state: the module-level code before the solver loop
\* ------------------------------------------------------------------------
Init ==
    /\ minefield \in SUBSET Cells
    /\ mines_left = Cardinality(minefield)
    /\ playarea = [c \in Cells |-> Unknown]
    /\ queries = [c \in Cells |-> 0]
    /\ pc = "loop"
    /\ scan = 0
    /\ regions = <<>>
    /\ playarea_modified = FALSE
    /\ stack = <<>>
    /\ cause = "none"
    /\ checked = <<>>
    /\ passes = 0
    /\ unknown_at_start = NumCells

\* ------------------------------------------------------------------------
\* Solver loop, top: visualize() and the call of find_regions
\* ------------------------------------------------------------------------
LoopTop ==
    /\ pc = "loop"
    /\ pc' = "find_regions"
    /\ scan' = 0
    /\ regions' = <<>>
    /\ playarea_modified' = FALSE
    /\ checked' = <<>>
    /\ passes' = passes + 1
    /\ unknown_at_start' = Cardinality(find_remaining(playarea))
    /\ UNCHANGED <<playarea, mines_left, minefield, queries, stack, cause>>

\* ------------------------------------------------------------------------
\* find_regions: one iteration of the double loop
\* ------------------------------------------------------------------------
IsDuplicate(fs, rs) == \E i \in 1 .. Len(rs) : rs[i].fields = fs

\* find_regions without the duplicate test
FindRegionsSkip_NoDuplicateTest(c) ==
    \/ playarea[c] = Mine
    \/ playarea[c] = Unknown
    \/ find_adjacent_type(c, Unknown, playarea) = {}

FindRegionsSkip(c) ==
    \/ playarea[c] = Mine
    \/ playarea[c] = Unknown
    \/ find_adjacent_type(c, Unknown, playarea) = {}
    \/ IsDuplicate(find_adjacent_type(c, Unknown, playarea), regions)

\* the region of a numbered cell without "num_mines - adjacent_mines"
CellRegion_IgnoresMarked(c, pa) ==
    Region(pa[c], pa[c], find_adjacent_type(c, Unknown, pa))

CellRegion(c, pa) ==
    LET mines_remaining == pa[c] - Cardinality(find_adjacent_type(c, Mine, pa))
    IN  Region(mines_remaining, mines_remaining, find_adjacent_type(c, Unknown, pa))

FindRegionsStep ==
    /\ pc = "find_regions"
    /\ scan < NumCells
    /\ LET c == CellAt(scan) IN
       IF FindRegionsSkip(c)
       THEN /\ scan' = scan + 1
            /\ checked' = <<>>
            /\ UNCHANGED <<playarea, mines_left, queries, pc, regions,
                           playarea_modified, cause>>
       ELSE LET region == CellRegion(c, playarea) IN
            \E o \in check_region(region, playarea, mines_left, queries, minefield) :
               /\ playarea' = o.playarea
               /\ mines_left' = o.mines_left
               /\ queries' = o.queries
               /\ checked' = << <<region, o.modified>> >>
               /\ cause' = IF o.queries # queries THEN "find_regions" ELSE cause
               /\ IF o.exploded
                  THEN /\ pc' = "exploded"
                       /\ UNCHANGED <<scan, regions, playarea_modified>>
                  ELSE /\ pc' = pc
                       /\ scan' = scan + 1
                       /\ regions' = Append(regions, region)
                       /\ playarea_modified' = (playarea_modified \/ o.modified)
    /\ UNCHANGED <<minefield, stack, passes, unknown_at_start>>

\* find_regions returns; the loop continues or calls split_regions(regions, 0)
Frame(depth, entry) ==
    [depth |-> depth, a |-> 0, b |-> 1, regionA |-> Region(0, 0, {}),
     regionB |-> Region(0, 0, {}), entry |-> entry]

\* the return of find_regions without the solver loop's "continue"
FindRegionsReturn_NoRestart ==
    /\ pc = "find_regions"
    /\ scan = NumCells
    /\ checked' = <<>>
    /\ pc' = "split_regions"
    /\ stack' = <<Frame(0, regions)>>
    /\ UNCHANGED <<playarea, mines_left, minefield, queries, scan, regions,
                   playarea_modified, cause, passes, unknown_at_start>>

FindRegionsReturn ==
    /\ pc = "find_regions"
    /\ scan = NumCells
    /\ checked' = <<>>
    /\ IF playarea_modified
       THEN /\ pc' = "loop"
            /\ UNCHANGED stack
       ELSE /\ pc' = "split_regions"
            /\ stack' = <<Frame(0, regions)>>
    /\ UNCHANGED <<playarea, mines_left, minefield, queries, scan, regions,
                   playarea_modified, cause, passes, unknown_at_start>>

\* ------------------------------------------------------------------------
\* split_regions: the bounds derived for C = A n B, D = A - B, E = B - A
\* ------------------------------------------------------------------------
Max3(a, b, c) == Max2(Max2(a, b), c)

\* regionC with len(regionD_fields) and len(regionE_fields) exchanged
SplitC_SizesSwapped(A, B) ==
    LET regionD_fields == A.fields \ B.fields
        regionE_fields == B.fields \ A.fields
    IN  Region(Max3(A.mines_min - Cardinality(regionE_fields),
                    B.mines_min - Cardinality(regionD_fields), 0),
               Min2(A.mines_max, B.mines_max),
               A.fields \cap B.fields)

SplitC(A, B) ==
    LET regionD_fields == A.fields \ B.fields
        regionE_fields == B.fields \ A.fields
    IN  Region(Max3(A.mines_min - Cardinality(regionD_fields),
                    B.mines_min - Cardinality(regionE_fields), 0),
               Min2(A.mines_max, B.mines_max),
               A.fields \cap B.fields)

SplitD(A, B) ==
    LET regionC == SplitC(A, B)
    IN  Region(Max2(A.mines_min - regionC.mines_max, 0),
               Max2(A.mines_max - regionC.mines_min, 0),
               A.fields \ B.fields)

\* regionE with regionA's bounds for regionB's
SplitE_UsesA(A, B) ==
    LET regionC == SplitC(A, B)
    IN  Region(Max2(A.mines_min - regionC.mines_max, 0),
               Max2(A.mines_max - regionC.mines_min, 0),
               B.fields \ A.fields)

SplitE(A, B) ==
    LET regionC == SplitC(A, B)
    IN  Region(Max2(B.mines_min - regionC.mines_max, 0),
               Max2(B.mines_max - regionC.mines_min, 0),
               B.fields \ A.fields)

\* "No overlap, don't split" and "Full overlap, don't split"
SplitSkips(A, B) ==
    \/ A.fields \cap B.fields = {}
    \/ (A.fields \ B.fields = {} /\ B.fields \ A.fields = {})

\* regions.append(regionC); regions[a] = regionD; regions[b] = regionE
Replace(rs, a, b, regionC, regionD, regionE) ==
    [[Append(rs, regionC) EXCEPT ![a + 1] = regionD] EXCEPT ![b + 1] = regionE]

\* the restore without "del regions[-1]"
Restore_KeepsLast(rs, frame) ==
    [[rs EXCEPT ![frame.b + 1] = frame.regionB] EXCEPT ![frame.a + 1] = frame.regionA]

\* regions[b] = regionB; regions[a] = regionA; del regions[-1]
Restore(rs, frame) ==
    SubSeq([[rs EXCEPT ![frame.b + 1] = frame.regionB]
                EXCEPT ![frame.a + 1] = frame.regionA], 1, Len(rs) - 1)

\* the pair loops with "range(regionA_index, len(regions))" as inner range
NextPair_FromSame(frame, n) ==
    IF frame.b + 1 < n
    THEN [frame EXCEPT !.b = frame.b + 1]
    ELSE [frame EXCEPT !.a = frame.a + 1, !.b = frame.a + 1]

\* the next pair of "for a in range(0, n): for b in range(a + 1, n)";
\* the loops are over when b reaches n
NextPair(frame, n) ==
    IF frame.b + 1 < n
    THEN [frame EXCEPT !.b = frame.b + 1]
    ELSE [frame EXCEPT !.a = frame.a + 1, !.b = frame.a + 2]

Top == stack[Len(stack)]

SetTop(st, frame) == [st EXCEPT ![Len(st)] = frame]

\* check_region on one more region, after the calls that led to outs
ThenCheck(outs, region, layout) ==
    UNION { IF o.exploded
            THEN {o}
            ELSE { [playarea |-> n.playarea, mines_left |-> n.mines_left,
                    queries |-> n.queries, exploded |-> n.exploded,
                    results |-> IF n.exploded THEN o.results
                                ELSE Append(o.results, <<region, n.modified>>)]
                   : n \in check_region(region, o.playarea, o.mines_left,
                                        o.queries, layout) }
          : o \in outs }

Start(pa, ml, q) ==
    { [playarea |-> pa, mines_left |-> ml, queries |-> q, exploded |-> FALSE,
       results |-> <<>>] }

\* "playarea_modified = check_region(...)" for "playarea_modified | ..."
AnyModified_LastOnly(results) == results # <<>> /\ results[Len(results)][2]

AnyModified(results) == \E i \in 1 .. Len(results) : results[i][2]

\* entry of split_regions: the depth test
\* the depth test with ">" for ">="
DepthReached_Late(depth) == depth > MAX_RECURSION_DEPTH

DepthReached(depth) == depth >= MAX_RECURSION_DEPTH

SplitEnter ==
    /\ pc = "split_regions"
    /\ IF DepthReached(Top.depth)
       THEN /\ pc' = "split_return"
            /\ playarea_modified' = FALSE
       ELSE /\ pc' = "split_pair"
            /\ UNCHANGED playarea_modified
    /\ checked' = <<>>
    /\ UNCHANGED <<playarea, mines_left, minefield, queries, scan, regions,
                   stack, cause, passes, unknown_at_start>>

\* one iteration of the pair loops
SplitPair ==
    /\ pc = "split_pair"
    /\ Top.b < Len(regions)
    /\ LET regionA == regions[Top.a + 1]
           regionB == regions[Top.b + 1]
       IN
       IF SplitSkips(regionA, regionB)
       THEN /\ stack' = SetTop(stack, NextPair(Top, Len(regions)))
            /\ checked' = <<>>
            /\ UNCHANGED <<playarea, mines_left, queries, pc, regions,
                           playarea_modified, cause>>
       ELSE LET regionC == SplitC(regionA, regionB)
                regionD == SplitD(regionA, regionB)
                regionE == SplitE(regionA, regionB)
            IN
            \E o \in ThenCheck(ThenCheck(ThenCheck(
                        Start(playarea, mines_left, queries),
                        regionC, minefield), regionD, minefield), regionE, minefield) :
               /\ playarea' = o.playarea
               /\ mines_left' = o.mines_left
               /\ queries' = o.queries
               /\ checked' = o.results
               /\ cause' = IF o.queries # queries THEN "split_regions" ELSE cause
               /\ IF o.exploded
                  THEN /\ pc' = "exploded"
                       /\ UNCHANGED <<regions, stack, playarea_modified>>
                  ELSE IF AnyModified(o.results)
                  THEN /\ pc' = "split_return"
                       /\ playarea_modified' = TRUE
                       /\ UNCHANGED <<regions, stack>>
                  ELSE /\ pc' = "split_regions"
                       /\ playarea_modified' = FALSE
                       /\ regions' = Replace(regions, Top.a, Top.b,
                                             regionC, regionD, regionE)
                       /\ stack' = Append(
                              SetTop(stack, [Top EXCEPT !.regionA = regionA,
                                                        !.regionB = regionB]),
                              Frame(Top.depth + 1,
                                    Replace(regions, Top.a, Top.b,
                                            regionC, regionD, regionE)))
    /\ UNCHANGED <<minefield, scan, passes, unknown_at_start>>

\* the pair loops are over: return False
SplitDone ==
    /\ pc = "split_pair"
    /\ Top.b >= Len(regions)
    /\ pc' = "split_return"
    /\ playarea_modified' = FALSE
    /\ checked' = <<>>
    /\ UNCHANGED <<playarea, mines_left, minefield, queries, scan, regions,
                   stack, cause, passes, unknown_at_start>>

\* a call of split_regions returns playarea_modified: to the caller's restore
\* and test, or to the solver loop
SplitReturn ==
    /\ pc = "split_return"
    /\ checked' = <<>>
    /\ IF Len(stack) = 1
       THEN /\ stack' = <<>>
            /\ pc' = IF playarea_modified THEN "loop" ELSE "remaining"
            /\ UNCHANGED regions
       ELSE LET caller == stack[Len(stack) - 1]
                popped == SubSeq(stack, 1, Len(stack) - 1)
            IN  /\ regions' = Restore(regions, caller)
                /\ IF playarea_modified
                   THEN /\ pc' = "split_return"
                        /\ stack' = popped
                   ELSE /\ pc' = "split_pair"
                        /\ stack' = SetTop(popped, NextPair(caller, Len(regions) - 1))
    /\ UNCHANGED <<playarea, mines_left, minefield, queries, scan,
                   playarea_modified, cause, passes, unknown_at_start>>

\* ------------------------------------------------------------------------
\* Solver loop, bottom: find_remaining(), the final sweep, the random guess
\* ------------------------------------------------------------------------
CellIndex(c) == c[2] * width + c[1]

\* the final sweep as "sweep_field(remaining[0])", without the loop
SweepRemaining_FirstOnly(pa, ml, q, layout) ==
    LET remaining == find_remaining(pa)
        first == { c \in remaining : \A d \in remaining : CellIndex(c) <= CellIndex(d) }
    IN  IF first \cap layout = {}
        THEN [playarea |-> Swept(pa, first, layout), queries |-> Asked(q, first),
              exploded |-> FALSE]
        ELSE [playarea |-> pa, queries |-> Asked(q, first), exploded |-> TRUE]

\* "for to_sweep in remaining: sweep_field(to_sweep)", remaining in scan order
SweepRemaining(pa, ml, q, layout) ==
    LET remaining == find_remaining(pa)
        bad == remaining \cap layout
    IN  IF bad = {}
        THEN [playarea |-> Swept(pa, remaining, layout), queries |-> Asked(q, remaining),
              exploded |-> FALSE]
        ELSE LET h == CHOOSE c \in bad : \A d \in bad : CellIndex(c) <= CellIndex(d)
                 before == { c \in remaining : CellIndex(c) < CellIndex(h) }
             IN  [playarea |-> Swept(pa, before, layout),
                  queries |-> Asked(q, before \cup {h}), exploded |-> TRUE]

Finish ==
    /\ pc = "remaining"
    /\ mines_left = 0 \/ find_remaining(playarea) = {}
    /\ IF mines_left = 0
       THEN LET o == SweepRemaining(playarea, mines_left, queries, minefield) IN
            /\ playarea' = o.playarea
            /\ queries' = o.queries
            /\ cause' = IF o.queries # queries THEN "final_sweep" ELSE cause
            /\ pc' = IF o.exploded THEN "exploded" ELSE "done"
       ELSE /\ pc' = "done"
            /\ UNCHANGED <<playarea, queries, cause>>
    /\ checked' = <<>>
    /\ UNCHANGED <<mines_left, minefield, scan, regions, playarea_modified,
                   stack, passes, unknown_at_start>>

\* the guess among all cells that are not marked, revealed ones included
Guess_NotMine ==
    /\ pc = "remaining"
    /\ mines_left # 0
    /\ \E guess \in { c \in Cells : playarea[c] # Mine } :
          /\ queries' = Asked(queries, {guess})
          /\ IF guess \in minefield
             THEN /\ pc' = "exploded"
                  /\ UNCHANGED playarea
             ELSE /\ pc' = "loop"
                  /\ playarea' = Swept(playarea, {guess}, minefield)
    /\ cause' = "guess"
    /\ checked' = <<>>
    /\ UNCHANGED <<mines_left, minefield, scan, regions, playarea_modified,
                   stack, passes, unknown_at_start>>

\* the guess without the "mines_left == 0" branch before it
Guess_WhenNoMines ==
    /\ pc = "remaining"
    /\ \E guess \in find_remaining(playarea) :
          /\ queries' = Asked(queries, {guess})
          /\ IF guess \in minefield
             THEN /\ pc' = "exploded"
                  /\ UNCHANGED playarea
             ELSE /\ pc' = "loop"
                  /\ playarea' = Swept(playarea, {guess}, minefield)
    /\ cause' = "guess"
    /\ checked' = <<>>
    /\ UNCHANGED <<mines_left, minefield, scan, regions, playarea_modified,
                   stack, passes, unknown_at_start>>

\* the guess that records the oracle's answer whatever it is and goes on
Guess_RecordsMine ==
    /\ pc = "remaining"
    /\ mines_left # 0
    /\ \E guess \in find_remaining(playarea) :
          /\ queries' = Asked(queries, {guess})
          /\ pc' = "loop"
          /\ playarea' = Swept(playarea, {guess}, minefield)
    /\ cause' = "guess"
    /\ checked' = <<>>
    /\ UNCHANGED <<mines_left, minefield, scan, regions, playarea_modified,
                   stack, passes, unknown_at_start>>

\* guess = randint(0, len(remaining) - 1); sweep_field(remaining[guess])
Guess ==
    /\ pc = "remaining"
    /\ mines_left # 0
    /\ \E guess \in find_remaining(playarea) :
          /\ queries' = Asked(queries, {guess})
          /\ IF guess \in minefield
             THEN /\ pc' = "exploded"
                  /\ UNCHANGED playarea
             ELSE /\ pc' = "loop"
                  /\ playarea' = Swept(playarea, {guess}, minefield)
    /\ cause' = "guess"
    /\ checked' = <<>>
    /\ UNCHANGED <<mines_left, minefield, scan, regions, playarea_modified,
                   stack, passes, unknown_at_start>>

Next ==
    \/ LoopTop
    \/ FindRegionsStep
    \/ FindRegionsReturn
    \/ SplitEnter
    \/ SplitPair
    \/ SplitDone
    \/ SplitReturn
    \/ Finish
    \/ Guess

Spec == Init /\ [][Next]_vars

\* ------------------------------------------------------------------------
\* The split formulas on their own: two regions drawn from bounded sets, and
\* one pass of the pair loop's body over them
\* ------------------------------------------------------------------------
FieldUniverse == { c \in Cells : CellIndex(c) < MaxFields }

InputRegions ==
    { Region(mn, mx, fs) : mn \in 0 .. MaxFields, mx \in 0 .. MaxFields,
                           fs \in SUBSET FieldUniverse }

Satisfiable(r) ==
    /\ r.fields # {}
    /\ r.mines_min <= r.mines_max
    /\ r.mines_min <= Cardinality(r.fields)

InitSplit ==
    /\ minefield = {}
    /\ mines_left = 0
    /\ playarea = [c \in Cells |-> Unknown]
    /\ queries = [c \in Cells |-> 0]
    /\ pc = "pair"
    /\ scan = 0
    /\ \E A \in InputRegions, B \in InputRegions :
          /\ Satisfiable(A)
          /\ Satisfiable(B)
          /\ regions = <<A, B>>
    /\ playarea_modified = FALSE
    /\ stack = <<Frame(0, regions)>>
    /\ cause = "none"
    /\ checked = <<>>
    /\ passes = 0
    /\ unknown_at_start = NumCells

\* the pair is skipped: no overlap, or full overlap
PairSkipped ==
    /\ pc = "pair"
    /\ SplitSkips(regions[1], regions[2])
    /\ pc' = "skipped"
    /\ UNCHANGED <<playarea, mines_left, minefield, queries, scan, regions,
                   playarea_modified, stack, cause, checked, passes,
                   unknown_at_start>>

\* regionC, regionD, regionE are derived and put in the list
PairDerived ==
    /\ pc = "pair"
    /\ ~SplitSkips(regions[1], regions[2])
    /\ pc' = "derived"
    /\ regions' = Replace(regions, 0, 1, SplitC(regions[1], regions[2]),
                          SplitD(regions[1], regions[2]),
                          SplitE(regions[1], regions[2]))
    /\ stack' = SetTop(stack, [Top EXCEPT !.regionA = regions[1],
                                          !.regionB = regions[2]])
    /\ UNCHANGED <<playarea, mines_left, minefield, queries, scan,
                   playarea_modified, cause, checked, passes, unknown_at_start>>

NextSplit == PairSkipped \/ PairDerived

SpecSplit == InitSplit /\ [][NextSplit]_vars

\* ========================================================================
\* Properties
\* ========================================================================
Revealed(t) == t \in 0 .. 8

MarkedMines(pa) == { c \in Cells : pa[c] = Mine }

BoundsOK(r) ==
    /\ 0 <= r.mines_min
    /\ r.mines_min <= r.mines_max
    /\ r.mines_max <= Cardinality(r.fields)

\* the number of mines a mine assignment S puts in a set of fields
MinesIn(S, fs) == Cardinality(S \cap fs)

Satisfies(S, r) ==
    /\ r.mines_min <= MinesIn(S, r.fields)
    /\ MinesIn(S, r.fields) <= r.mines_max

\* the mine assignments over A.fields u B.fields that satisfy A and B
JointAssignments(A, B) ==
    { S \in SUBSET (A.fields \cup B.fields) : Satisfies(S, A) /\ Satisfies(S, B) }

\* the pair whose split the pure specification has just derived
SplitA == Top.regionA

SplitB == Top.regionB

DerivedD == regions[1]

DerivedE == regions[2]

DerivedC == regions[3]

\* C2: split soundness.  Every mine assignment over A.fields u B.fields that
\* satisfies A's and B's bounds puts in C, D and E a number of mines within
\* the bounds split_regions derives for them.
C2_SplitSound ==
    pc = "derived" =>
        \A S \in JointAssignments(SplitA, SplitB) :
            /\ Satisfies(S, DerivedC)
            /\ Satisfies(S, DerivedD)
            /\ Satisfies(S, DerivedE)

\* two exact regions sharing one field of three each: the split is derived
\* and some assignment satisfies both
C2_Witness ==
    /\ pc = "derived"
    /\ Cardinality(JointAssignments(SplitA, SplitB)) >= 2
    /\ SplitA.mines_min = SplitA.mines_max
    /\ SplitB.mines_min = SplitB.mines_max
    /\ DerivedC.mines_min = 1
    /\ DerivedD.mines_min < DerivedD.mines_max
    /\ DerivedE.fields # {}

\* C3: bound invariant.  Every region in the list, and every region given to
\* check_region, has 0 <= mines_min <= mines_max <= |fields|.
C3_BoundInvariant ==
    /\ \A i \in 1 .. Len(regions) : BoundsOK(regions[i])
    /\ \A i \in 1 .. Len(checked) : BoundsOK(checked[i][1])

\* C4: split tightness.  For overlapping regions A and B that keep the bound
\* invariant and have a common assignment, the derived bounds of C, D and E
\* are the least and the greatest number of mines C, D and E hold over the
\* assignments that satisfy A and B.
Counts(A, B, fs) == { MinesIn(S, fs) : S \in JointAssignments(A, B) }

Exact(r, A, B) ==
    /\ r.mines_min \in Counts(A, B, r.fields)
    /\ r.mines_max \in Counts(A, B, r.fields)
    /\ \A n \in Counts(A, B, r.fields) : r.mines_min <= n /\ n <= r.mines_max

C4_SplitTight ==
    (/\ pc = "derived"
     /\ BoundsOK(SplitA)
     /\ BoundsOK(SplitB)
     /\ JointAssignments(SplitA, SplitB) # {})
    => /\ Exact(DerivedC, SplitA, SplitB)
       /\ Exact(DerivedD, SplitA, SplitB)
       /\ Exact(DerivedE, SplitA, SplitB)

\* C1: deduction soundness.  Every cell marked Mine is a mine of the oracle's
\* layout, no deduction (check_region in find_regions or split_regions) and
\* no final sweep has asked the oracle for a mine, and the program ends on a
\* mine only after the random guess.
C1_DeductionSound ==
    /\ \A c \in Cells : playarea[c] = Mine => c \in minefield
    /\ \A c \in Cells : (queries[c] > 0 /\ c \in minefield) =>
                            (cause = "guess" /\ pc = "exploded")
    /\ pc = "exploded" => cause = "guess"

\* a split below depth 0 has just marked a mine and revealed a cell
C1_Witness ==
    /\ pc = "split_return"
    /\ Len(stack) > 1
    /\ \E i \in 1 .. Len(checked) :
          /\ checked[i][2]
          /\ \A c \in checked[i][1].fields : playarea[c] = Mine
    /\ \E i \in 1 .. Len(checked) :
          /\ checked[i][2]
          /\ \A c \in checked[i][1].fields : Revealed(playarea[c])

\* C5: applier precision.  A check_region call returns True only for a region
\* with fields, mines_min = mines_max and that value 0 or |fields|; it then
\* reveals all the fields (value 0) or marks them all (value |fields|).  A
\* call that returns False leaves its fields alone, and a step of find_regions
\* or split_regions changes no cell outside the fields of the regions whose
\* call returned True, and mines_left only by the number of fields marked.
Collapsed(r) == r.fields # {} /\ r.mines_min = r.mines_max

Applied(cs) == { i \in 1 .. Len(cs) : cs[i][2] }

MarkedBy(cs) ==
    UNION { cs[i][1].fields : i \in { j \in Applied(cs) : cs[j][1].mines_min # 0 } }

C5_Step ==
    pc \in {"find_regions", "split_pair"} =>
       /\ \A i \in 1 .. Len(checked') :
             LET r == checked'[i][1] IN
             IF checked'[i][2]
             THEN /\ Collapsed(r)
                  /\ r.mines_min = 0 \/ r.mines_min = Cardinality(r.fields)
                  /\ r.mines_min = 0 =>
                        \A c \in r.fields : Revealed(playarea'[c])
                  /\ r.mines_min # 0 =>
                        \A c \in r.fields : playarea'[c] = Mine
             ELSE /\ ~Collapsed(r) \/ r.mines_min \notin {0, Cardinality(r.fields)}
                  /\ \A c \in r.fields : playarea'[c] = playarea[c]
       /\ \A c \in Cells :
             playarea'[c] # playarea[c] =>
                \E i \in Applied(checked') : c \in checked'[i][1].fields
       /\ mines_left' = mines_left - Cardinality(MarkedBy(checked'))

C5_ApplierPrecise == [][C5_Step]_vars

\* one split whose three calls took the three ways: no-op, reveal, mark
C5_Witness ==
    /\ Len(checked) = 3
    /\ \E i \in 1 .. 3 :
          /\ ~checked[i][2]
          /\ Collapsed(checked[i][1])
    /\ \E i \in 1 .. 3 :
          /\ checked[i][2]
          /\ checked[i][1].mines_min = 0
    /\ \E i \in 1 .. 3 :
          /\ checked[i][2]
          /\ checked[i][1].mines_min # 0

\* C6: restoration.  When a call of split_regions is about to return, with
\* False or with True, the list holds the regions it held when the call was
\* entered, in the same order.
C6_Restored == pc = "split_return" => regions = Top.entry

\* a call returns True because a deeper call did, after restoring the list
C6_Witness ==
    /\ pc = "split_return"
    /\ playarea_modified
    /\ checked = <<>>
    /\ Top.regionA.fields # {}
    /\ Len(regions) >= 3

\* C7: depth bound.  No pair is examined, and so no check_region is run, at a
\* depth >= MAX_RECURSION_DEPTH; a call at depth MAX_RECURSION_DEPTH returns
\* False and leaves the board, mines_left and the list as they were.
C7_NoPairAtBound ==
    /\ \A i \in 1 .. Len(stack) : stack[i].depth = i - 1
    /\ Len(stack) <= MAX_RECURSION_DEPTH + 1
    /\ pc = "split_pair" => Top.depth < MAX_RECURSION_DEPTH
    /\ (pc = "split_return" /\ checked # <<>>) => Top.depth < MAX_RECURSION_DEPTH
    /\ (pc = "split_regions" /\ checked # <<>>) => Top.depth - 1 < MAX_RECURSION_DEPTH

C7_ReturnAtBound ==
    (pc = "split_regions" /\ Top.depth = MAX_RECURSION_DEPTH) =>
       /\ pc' = "split_return"
       /\ playarea_modified' = FALSE
       /\ UNCHANGED <<playarea, mines_left, regions, queries, stack>>

C7_DepthBound == []C7_NoPairAtBound /\ [][C7_ReturnAtBound]_vars

\* the call at depth MAX_RECURSION_DEPTH is returning
C7_Witness ==
    /\ pc = "split_return"
    /\ Top.depth = MAX_RECURSION_DEPTH
    /\ ~playarea_modified

\* C8: termination.  An iteration of the solver loop that does not end the
\* program resolves at least one Unknown cell, find_regions and split_regions
\* report a modification only when a cell changed, and the loop runs at most
\* width * height + 1 iterations.
UnknownNow == Cardinality(find_remaining(playarea))

C8_Terminates ==
    /\ passes <= NumCells + 1
    /\ passes + UnknownNow <= NumCells + 1
    /\ (pc = "loop" /\ passes > 0) => UnknownNow < unknown_at_start
    /\ (pc \in {"find_regions", "split_return"} /\ playarea_modified)
          => UnknownNow < unknown_at_start
    /\ (pc \in {"find_regions", "split_regions", "split_pair", "remaining"}
        /\ ~playarea_modified) => UnknownNow = unknown_at_start

\* the longest solve: width * height + 1 iterations, the last one ends it
C8_Witness == pc = "done" /\ passes = NumCells + 1

\* C9: one-way cell transitions.  A cell changes state only from Unknown, to
\* a count or to Mine; the oracle is asked at most once for a cell and never
\* for a cell marked Mine.
C9_Step ==
    \A c \in Cells :
        playarea'[c] # playarea[c] =>
            /\ playarea[c] = Unknown
            /\ Revealed(playarea'[c]) \/ playarea'[c] = Mine

C9_Asked ==
    \A c \in Cells :
        /\ queries[c] <= 1
        /\ playarea[c] = Mine => queries[c] = 0
        /\ Revealed(playarea[c]) => queries[c] = 1

C9_OneWay == []C9_Asked /\ [][C9_Step]_vars

\* one split applied two of its three regions
C9_Witness ==
    /\ pc = "split_return"
    /\ Cardinality(Applied(checked)) >= 2

\* C10: mine accounting.  mines_left is the oracle's mine count less the number
\* of cells marked Mine and is never negative; a step changes it by exactly
\* the number of cells it marks, so reveals leave it as it was.
C10_Count ==
    /\ mines_left = Cardinality(minefield) - Cardinality(MarkedMines(playarea))
    /\ mines_left >= 0

C10_Step ==
    mines_left' = mines_left -
        Cardinality(MarkedMines(playarea') \ MarkedMines(playarea))

C10_MineAccounting == []C10_Count /\ [][C10_Step]_vars

\* a region of two or more fields has just been marked
C10_Witness ==
    \E i \in Applied(checked) :
        /\ checked[i][1].mines_min >= 2
        /\ \A c \in checked[i][1].fields : playarea[c] = Mine
        /\ mines_left + Cardinality(checked[i][1].fields) <= Cardinality(minefield)

\* C11 as stated: once mines_left is 0, no deduction of find_regions or
\* split_regions is applied any more before the remaining cells are revealed.
C11_NoAnalysisAfterZero == [][mines_left = 0 => Applied(checked') = {}]_vars

\* C11 as amended: once mines_left is 0 it stays 0, no cell is marked, no
\* guess is made and no reveal hits a mine; find_regions and split_regions
\* may still reveal cells by deduction, and the iteration in which both
\* report no modification reveals every remaining Unknown cell and ends the
\* solve successfully.
C11_State == mines_left = 0 => pc # "exploded"

C11_Step ==
    mines_left = 0 =>
       /\ mines_left' = 0
       /\ MarkedMines(playarea') = MarkedMines(playarea)
       /\ pc' # "exploded"
       /\ queries' # queries => cause' \in {"find_regions", "split_regions", "final_sweep"}
       /\ pc = "remaining" => (pc' = "done" /\ find_remaining(playarea') = {})

C11_ZeroThenSolved == []C11_State /\ [][C11_Step]_vars

\* with every mine marked, find_regions has just revealed cells by deduction
C11_Witness ==
    /\ pc = "find_regions"
    /\ mines_left = 0
    /\ minefield # {}
    /\ Len(checked) = 1
    /\ checked[1][2]
    /\ checked[1][1].mines_min = 0

\* C12: a reveal the oracle answers with "was a mine" puts the program in
\* the loss state: it takes no further step, so no cell is revealed or marked
\* afterwards, and the cell is not recorded as a revealed count.
C12_State ==
    /\ \A c \in minefield : ~Revealed(playarea[c])
    /\ \A c \in minefield : queries[c] > 0 => (pc = "exploded" /\ playarea[c] = Unknown)
    /\ pc = "exploded" <=> \E c \in minefield : queries[c] > 0

C12_Step == pc = "exploded" => FALSE

ScenarioBoard ==
    playarea = [c \in Cells |-> IF c = <<0, 0>> THEN 1
                                ELSE IF c = <<2, 0>> THEN 2
                                ELSE IF c = <<1, 2>> THEN 4
                                ELSE Unknown]

ScenarioRegions ==
    << Region(1, 1, {<<1, 0>>, <<0, 1>>, <<1, 1>>}),
       Region(2, 2, {<<1, 0>>, <<1, 1>>, <<2, 1>>}),
       Region(4, 4, {<<0, 1>>, <<1, 1>>, <<2, 1>>, <<0, 2>>, <<2, 2>>}) >>

ScenarioChecked ==
    << <<Region(1, 1, {<<1, 0>>, <<1, 1>>}), FALSE>>,
       <<Region(0, 0, {<<0, 1>>}), TRUE>>,
       <<Region(1, 1, {<<2, 1>>}), TRUE>> >>

C13_State ==
    (ScenarioBoard /\ pc \in {"split_regions", "split_pair"}) =>
       /\ Len(stack) = 1
       /\ regions = ScenarioRegions
       /\ Top.a = 0
       /\ Top.b = 1

C13_Step ==
    (ScenarioBoard /\ pc = "split_pair") =>
       /\ checked' = ScenarioChecked
       /\ Revealed(playarea'[<<0, 1>>])
       /\ playarea'[<<2, 1>>] = Mine
       /\ \A c \in Cells \ {<<0, 1>>, <<2, 1>>} : playarea'[c] = playarea[c]
       /\ mines_left' = mines_left - 1
       /\ pc' = "split_return"
       /\ playarea_modified'
       /\ stack' = stack
       /\ regions' = regions

C13_Return ==
    (pc = "split_return" /\ checked = ScenarioChecked) =>
       /\ pc' = "loop"
       /\ stack' = <<>>
       /\ playarea' = playarea

C13_Scenario1 == []C13_State /\ [][C13_Step /\ C13_Return]_vars

\* the pair (1, 2) of the scenario has just been examined
C13_Witness ==
    /\ pc = "split_return"
    /\ checked = ScenarioChecked
    /\ regions = ScenarioRegions
    /\ playarea[<<2, 1>>] = Mine
    /\ playarea[<<0, 1>>] = 2
    /\ playarea[<<1, 2>>] = 4

\* C14 as stated and as amended share this step property: the step of
\* find_regions at a cell appends a region exactly when the cell is revealed
\* with a count of at least low, has an Unknown neighbour and no region
\* collected in this pass has the same fields; the region has the Unknown
\* neighbours as fields and count less marked neighbours as both bounds.
Near(c) ==
    { d \in Cells : /\ d # c
                    /\ d[1] - c[1] \in {-1, 0, 1}
                    /\ d[2] - c[2] \in {-1, 0, 1} }

Extracts(low) ==
    (pc = "find_regions" /\ scan < NumCells) =>
       LET c == CellAt(scan)
           U == { d \in Near(c) : playarea[d] = Unknown }
           M == { d \in Near(c) : playarea[d] = Mine }
           n == playarea[c] - Cardinality(M)
       IN  IF /\ Revealed(playarea[c])
              /\ playarea[c] >= low
              /\ U # {}
              /\ \A i \in 1 .. Len(regions) : regions[i].fields # U
           THEN regions' = Append(regions, Region(n, n, U))
           ELSE regions' = regions /\ playarea' = playarea

\* C14 as stated: regions come from counts above 0 only; a revealed 0 yields
\* no region and the extractor reveals none of its neighbours.
C14_OnlyPositiveCounts == [][Extracts(1)]_vars

\* C14 as amended: regions come from every revealed count, 0 included; a
\* revealed 0 with Unknown neighbours, unless a duplicate, yields the region
\* (0, 0, neighbours) and the extractor reveals all of them.
C14_ZeroStep ==
    (/\ pc = "find_regions"
     /\ scan < NumCells
     /\ playarea[CellAt(scan)] = 0
     /\ Len(regions') > Len(regions))
    => \A d \in Near(CellAt(scan)) : Revealed(playarea'[d])

C14_Extraction == [][Extracts(0) /\ C14_ZeroStep]_vars

\* the region of a revealed 0 has just been stored and its fields revealed
C14_Witness ==
    /\ pc = "find_regions"
    /\ scan > 0
    /\ playarea[CellAt(scan - 1)] = 0
    /\ Len(checked) = 1
    /\ checked[1][2]
    /\ regions # <<>>
    /\ regions[Len(regions)] = checked[1][1]
    /\ regions[Len(regions)].mines_max = 0

\* C15: stale regions never reach the splitter.  split_regions is entered at
\* depth 0 only after a find_regions pass that changed no cell, with the list
\* that pass returned; while the splitter has not changed the board, every
\* region of the working list, at every depth, holds Unknown cells only.
AllUnknown(rs) ==
    \A i \in 1 .. Len(rs) : \A c \in rs[i].fields : playarea[c] = Unknown

C15_State ==
    /\ (pc \in {"split_regions", "split_pair"}
        \/ (pc = "split_return" /\ ~playarea_modified))
          => /\ AllUnknown(regions)
             /\ \A i \in 1 .. Len(stack) : AllUnknown(stack[i].entry)
             /\ UnknownNow = unknown_at_start
    /\ (pc = "split_regions" /\ Len(stack) = 1)
          => /\ ~playarea_modified
             /\ regions = Top.entry

C15_Step ==
    (pc = "find_regions" /\ pc' = "split_regions") =>
       /\ ~playarea_modified
       /\ regions' = regions
       /\ playarea' = playarea

C15_NoStaleRegions == []C15_State /\ [][C15_Step]_vars

\* a pair loop three levels down runs over derived regions
C15_Witness ==
    /\ pc = "split_pair"
    /\ Top.depth = 3
    /\ Len(regions) >= 5
    /\ \E i \in 1 .. Len(regions) : Cardinality(regions[i].fields) >= 2

\* C16: mutation propagation.  Once a check_region of a pair returns True,
\* the call returns True with the pair loops left; every enclosing call
\* returns True after its restore, with no pair examined, no check_region
\* run and no cell changed on the way, and the solver loop then starts over
\* with a fresh find_regions.
C16_Step ==
    /\ (pc = "split_pair" /\ \E i \in 1 .. Len(checked') : checked'[i][2]) =>
          /\ pc' = "split_return"
          /\ playarea_modified'
          /\ stack' = stack
    /\ (pc = "split_return" /\ playarea_modified) =>
          /\ checked' = <<>>
          /\ playarea' = playarea
          /\ mines_left' = mines_left
          /\ playarea_modified'
          /\ stack' = SubSeq(stack, 1, Len(stack) - 1)
          /\ pc' = IF Len(stack) = 1 THEN "loop" ELSE "split_return"
    /\ (pc = "loop" /\ pc' # "loop") =>
          /\ pc' = "find_regions"
          /\ regions' = <<>>
          /\ scan' = 0
          /\ ~playarea_modified'

C16_Propagates == [][C16_Step]_vars

\* a mutation two or more levels down is on its way up
C16_Witness ==
    /\ pc = "split_return"
    /\ playarea_modified
    /\ checked = <<>>
    /\ Len(stack) >= 2
    /\ Top.b + 1 < Len(regions)

\* C17: pair order.  Every call stands at a pair a < b; a new call starts at
\* (0, 1); a call moves from a pair only to the next pair in lexicographic
\* order, so no pair is examined twice or in reverse; and the list of the
\* call one level down is the caller's list with D in A's place, E in B's
\* place and C appended last.
NextInOrder(f, g) ==
    \/ g.a = f.a /\ g.b = f.b + 1 /\ g.b < Len(f.entry)
    \/ f.b + 1 >= Len(f.entry) /\ g.a = f.a + 1 /\ g.b = g.a + 1

DerivedList(f, g) ==
    LET A == f.entry[f.a + 1]
        B == f.entry[f.b + 1]
    IN  /\ f.b < Len(f.entry)
        /\ f.regionA = A
        /\ f.regionB = B
        /\ Len(g.entry) = Len(f.entry) + 1
        /\ g.entry[f.a + 1].fields = A.fields \ B.fields
        /\ g.entry[f.b + 1].fields = B.fields \ A.fields
        /\ g.entry[Len(g.entry)].fields = A.fields \cap B.fields
        /\ \A j \in 1 .. Len(f.entry) :
              j \notin {f.a + 1, f.b + 1} => g.entry[j] = f.entry[j]

C17_State ==
    /\ \A i \in 1 .. Len(stack) : 0 <= stack[i].a /\ stack[i].a < stack[i].b
    /\ \A i \in 1 .. Len(stack) - 1 : DerivedList(stack[i], stack[i + 1])
    /\ pc \in {"split_regions", "split_pair"} => regions = Top.entry

C17_Step ==
    /\ \A i \in 1 .. Min2(Len(stack), Len(stack')) :
          \/ stack'[i].a = stack[i].a /\ stack'[i].b = stack[i].b
          \/ NextInOrder(stack[i], stack'[i])
    /\ Len(stack') > Len(stack) =>
          /\ Len(stack') = Len(stack) + 1
          /\ stack'[Len(stack')].a = 0
          /\ stack'[Len(stack')].b = 1
    /\ checked' # <<>> /\ pc = "split_pair" => Top.b < Len(regions)

C17_PairOrder == []C17_State /\ [][C17_Step]_vars

\* a call below depth 0 stands at a later row's pair with the appended C
C17_Witness ==
    /\ pc = "split_pair"
    /\ Len(stack) >= 2
    /\ Top.a >= 1
    /\ Top.b = Len(regions) - 1
    /\ regions[Top.a + 1].fields \cap regions[Top.b + 1].fields # {}

\* C18: the fallback guess.  The program guesses only at the bottom of an
\* iteration in which find_regions and split_regions at depth 0 reported no
\* modification and changed no cell, with mines_left # 0 and an Unknown cell
\* left; the guess asks the oracle for exactly one cell, an Unknown one, and
\* ends the iteration.
C18_State ==
    pc = "remaining" =>
       /\ ~playarea_modified
       /\ stack = <<>>
       /\ UnknownNow = unknown_at_start

C18_Step ==
    /\ (queries' # queries /\ cause' = "guess") =>
          /\ pc = "remaining"
          /\ ~playarea_modified
          /\ UnknownNow = unknown_at_start
          /\ mines_left # 0
          /\ \E g \in Cells :
                /\ playarea[g] = Unknown
                /\ queries[g] = 0
                /\ queries' = [queries EXCEPT ![g] = 1]
                /\ \A d \in Cells \ {g} : playarea'[d] = playarea[d]
                /\ playarea'[g] = Unknown \/ Revealed(playarea'[g])
          /\ pc' \in {"loop", "exploded"}
          /\ passes' = passes
    /\ (pc = "remaining" /\ pc' \in {"loop", "exploded"}) => cause' = "guess"
    /\ (queries' # queries /\ pc # "remaining") => cause' # "guess"

C18_GuessWhenStable == []C18_State /\ [][C18_Step]_vars

\* a guess made after deductions had marked a mine
C18_Witness ==
    /\ cause = "guess"
    /\ pc = "loop"
    /\ passes >= 3
    /\ MarkedMines(playarea) # {}
    /\ UnknownNow = unknown_at_start - 1

\* C19: the solved state.  When the solver loop breaks, no cell is Unknown,
\* the cells marked Mine are exactly the oracle's mines, every other cell
\* shows the number of mines around it, and mines_left is 0.
C19_Solved ==
    pc = "done" =>
       /\ \A c \in Cells : playarea[c] # Unknown
       /\ { c \in Cells : playarea[c] = Mine } = minefield
       /\ \A c \in Cells \ minefield :
             playarea[c] = Cardinality(Near(c) \cap minefield)
       /\ mines_left = 0

\* a board with mines solved, the last cells by the final sweep
C19_Witness ==
    /\ pc = "done"
    /\ Cardinality(minefield) >= 2
    /\ cause = "final_sweep"
    /\ passes >= 3

====
